---------------------------- MODULE Spec2Model ----------------------------
(***************************************************************************)
(* Student record store of studentrecord.py: the linked list of Student    *)
(* records, the hash map from normalized roll to node, the quicksort, the   *)
(* JSON persistence (temp file + replace) and the handlers of StudentApp.   *)
(*                                                                          *)
(* Strings are sequences of one-character strings.  A GPA is a float kept   *)
(* in tenths (35 stands for 3.5); NaN is the float float("nan") yields.     *)
(* The linked list is the sequence of its students in list order and a      *)
(* node is named by its position in that sequence.                          *)
(***************************************************************************)
EXTENDS Integers, Sequences, FiniteSets, TLC

VARIABLES
    linked_list,   \* StudentApp.linked_list: the students, in list order
    hash_map,      \* StudentApp.hash_map: normalized roll -> node (position)
    file,          \* the file at JSON_FILE
    tree,          \* the rows of the Treeview table
    running,       \* the process is alive
    fails          \* failed saves since the last save that succeeded

vars == <<linked_list, hash_map, file, tree, running, fails>>

----------------------------------------------------------------------------
(* Bounds *)

MaxStudents == 2      \* add is offered while the list is shorter than this
MaxFile == 2          \* longest JSON array the backing file starts with
MaxFails == 1         \* longest run of consecutive failed saves
MaxSortLen == 3       \* longest list the sort specification starts with

----------------------------------------------------------------------------
(* Strings *)

Space == " "

\* Code points of the characters the model uses (Python compares str by them).
Code(c) ==
    CASE c = " " -> 32
      [] c = "-" -> 45
      [] c = "." -> 46
      [] c = "0" -> 48
      [] c = "1" -> 49
      [] c = "2" -> 50
      [] c = "3" -> 51
      [] c = "4" -> 52
      [] c = "5" -> 53
      [] c = "A" -> 65
      [] c = "B" -> 66
      [] c = "N" -> 78
      [] c = "a" -> 97
      [] c = "b" -> 98
      [] c = "n" -> 110
      [] c = "x" -> 120

\* str.upper / str.lower on one character
UpperChar(c) ==
    CASE c = "a" -> "A"
      [] c = "b" -> "B"
      [] c = "n" -> "N"
      [] c = "x" -> "X"
      [] OTHER -> c

LowerChar(c) ==
    CASE c = "A" -> "a"
      [] c = "B" -> "b"
      [] c = "N" -> "n"
      [] OTHER -> c

upper(s) == [i \in 1..Len(s) |-> UpperChar(s[i])]
lower(s) == [i \in 1..Len(s) |-> LowerChar(s[i])]

RECURSIVE lstrip(_)
lstrip(s) == IF s # <<>> /\ Head(s) = Space THEN lstrip(Tail(s)) ELSE s

RECURSIVE rstrip(_)
rstrip(s) ==
    IF s # <<>> /\ s[Len(s)] = Space THEN rstrip(SubSeq(s, 1, Len(s) - 1)) ELSE s

\* str.strip()
strip(s) == rstrip(lstrip(s))

\* Python's s < t on str: lexicographic by code point, a proper prefix is less.
RECURSIVE StrLt(_, _)
StrLt(s, t) ==
    IF t = <<>> THEN FALSE
    ELSE IF s = <<>> THEN TRUE
    ELSE IF Code(Head(s)) # Code(Head(t)) THEN Code(Head(s)) < Code(Head(t))
    ELSE StrLt(Tail(s), Tail(t))

\* normalize_roll: roll.strip().upper()
normalize_roll(roll) == upper(strip(roll))

----------------------------------------------------------------------------
(* Floats *)

NaN == 999

\* Python's a < b on float: every comparison with NaN is False.
FloatLt(a, b) == a # NaN /\ b # NaN /\ a < b

IsDigit(c) == c \in {"0", "1", "2", "3", "4", "5"}
DigitVal(c) == Code(c) - Code("0")

\* float(text) for the texts a GPA entry is given here: an optional sign, one
\* digit, an optional fraction of one digit; "nan"; anything else raises
\* ValueError.  float() itself ignores surrounding whitespace.
ParseUnsigned(t) ==
    IF Len(t) = 1 /\ IsDigit(t[1])
        THEN [ok |-> TRUE, val |-> 10 * DigitVal(t[1])]
    ELSE IF Len(t) = 3 /\ IsDigit(t[1]) /\ t[2] = "." /\ IsDigit(t[3])
        THEN [ok |-> TRUE, val |-> 10 * DigitVal(t[1]) + DigitVal(t[3])]
    ELSE [ok |-> FALSE, val |-> 0]

float(text) ==
    LET t == strip(text) IN
    IF lower(t) = <<"n", "a", "n">> THEN [ok |-> TRUE, val |-> NaN]
    ELSE IF t # <<>> /\ Head(t) = "-"
        THEN LET p == ParseUnsigned(Tail(t)) IN [ok |-> p.ok, val |-> 0 - p.val]
    ELSE ParseUnsigned(t)

DigitChar == <<"0", "1", "2", "3", "4", "5", "6", "7", "8", "9">>

\* "{:.2f}".format(gpa) for a float of at most one decimal below 10
Format2f(g) ==
    IF g = NaN THEN <<"n", "a", "n">>
    ELSE LET m == IF g < 0 THEN 0 - g ELSE g
             body == <<DigitChar[(m \div 10) + 1], ".", DigitChar[(m % 10) + 1], "0">>
         IN IF g < 0 THEN <<"-">> \o body ELSE body

----------------------------------------------------------------------------
(* Data model *)

\* Student.__init__: the three attributes
Student(roll, name, gpa) == [roll |-> roll, name |-> name, gpa |-> gpa]

\* Student.to_dict
to_dict(s) == [roll |-> s.roll, name |-> s.name, gpa |-> s.gpa]

DictKeys == {"roll", "name", "gpa"}

\* Student.from_dict raises KeyError when a key is missing
from_dict_raises(d) == ~(DictKeys \subseteq DOMAIN d)

\* Student.from_dict: keys other than the three are dropped
from_dict(d) == Student(d.roll, d.name, d.gpa)

\* LinkedList.append: the new node goes after the last one
append(list, student) == list \o <<student>>

\* LinkedList.to_list: the students in list order
to_list(list) == [i \in 1..Len(list) |-> list[i]]

\* LinkedList.rebuild_from_list: clear, then append each student in turn
RECURSIVE rebuild_onto(_, _)
rebuild_onto(list, students_list) ==
    IF students_list = <<>> THEN list
    ELSE rebuild_onto(append(list, Head(students_list)), Tail(students_list))

rebuild_from_list(students_list) == rebuild_onto(<<>>, students_list)

\* LinkedList.remove_by_roll: unlink the first node whose student.roll equals
\* roll (the stored text, compared as it is); tell whether one was removed.
RECURSIVE remove_from(_, _, _)
remove_from(list, cur, roll) ==
    IF cur > Len(list) THEN [list |-> list, removed |-> FALSE]
    ELSE IF list[cur].roll = roll
        THEN [list |-> SubSeq(list, 1, cur - 1) \o SubSeq(list, cur + 1, Len(list)),
              removed |-> TRUE]
    ELSE remove_from(list, cur + 1, roll)

remove_by_roll(list, roll) == remove_from(list, 1, roll)

----------------------------------------------------------------------------
(* Sorting: quicksort_students *)

SortFields == {"roll", "name", "gpa"}

\* the key_fn sort_and_refresh picks for sort_var
key_fn(key_name, s) ==
    CASE key_name = "roll" -> normalize_roll(s.roll)
      [] key_name = "name" -> lower(s.name)
      [] key_name = "gpa" -> s.gpa
      [] OTHER -> normalize_roll(s.roll)

\* x < y on two keys of that kind
KeyLt(key_name, x, y) ==
    IF key_name = "gpa" THEN FloatLt(x, y) ELSE StrLt(x, y)

Swap(a, i, j) == [a EXCEPT ![i] = a[j], ![j] = a[i]]

\* while key(a[i]) < pivot: i += 1
RECURSIVE ScanUp(_, _, _, _)
ScanUp(a, i, pivot, key_name) ==
    IF KeyLt(key_name, key_fn(key_name, a[i]), pivot)
        THEN ScanUp(a, i + 1, pivot, key_name)
        ELSE i

\* while key(a[j]) > pivot: j -= 1
RECURSIVE ScanDown(_, _, _, _)
ScanDown(a, j, pivot, key_name) ==
    IF KeyLt(key_name, pivot, key_fn(key_name, a[j]))
        THEN ScanDown(a, j - 1, pivot, key_name)
        ELSE j

\* the loop  while i <= j  of _quicksort
RECURSIVE Partition(_, _, _, _, _)
Partition(a, i, j, pivot, key_name) ==
    IF i > j THEN [a |-> a, i |-> i, j |-> j]
    ELSE LET i1 == ScanUp(a, i, pivot, key_name)
             j1 == ScanDown(a, j, pivot, key_name)
         IN IF i1 <= j1
                THEN Partition(Swap(a, i1, j1), i1 + 1, j1 - 1, pivot, key_name)
                ELSE Partition(a, i1, j1, pivot, key_name)

\* _quicksort without the recursion into the right part
RECURSIVE quicksort_left_only(_, _, _, _)
quicksort_left_only(a, lo, hi, key_name) ==
    IF lo >= hi THEN a
    ELSE LET pivot == key_fn(key_name, a[(lo + hi) \div 2])
             p == Partition(a, lo, hi, pivot, key_name)
         IN IF lo < p.j THEN quicksort_left_only(p.a, lo, p.j, key_name) ELSE p.a

\* _quicksort(a, lo, hi), on positions counted from 1: the middle position
\* (lo + hi) // 2 is the same element in both countings.
RECURSIVE quicksort_range(_, _, _, _)
quicksort_range(a, lo, hi, key_name) ==
    IF lo >= hi THEN a
    ELSE LET pivot == key_fn(key_name, a[(lo + hi) \div 2])
             p == Partition(a, lo, hi, pivot, key_name)
             left == IF lo < p.j THEN quicksort_range(p.a, lo, p.j, key_name) ELSE p.a
         IN IF p.i < hi THEN quicksort_range(left, p.i, hi, key_name) ELSE left

quicksort_students(arr, key_name) ==
    IF Len(arr) <= 1 THEN arr ELSE quicksort_range(arr, 1, Len(arr), key_name)

\* list.reverse()
reverse(a) == [i \in 1..Len(a) |-> a[Len(a) + 1 - i]]

\* the order sort_and_refresh gives the list: quicksort, reversed for "gpa"
sorted_students(students, key_name) ==
    LET s == quicksort_students(students, key_name)
    IN IF key_name = "gpa" THEN reverse(s) ELSE s

----------------------------------------------------------------------------
(* Persistence: the JSON file *)

\* The file at JSON_FILE: missing, text json.load rejects, or a JSON array.
NoFile == [kind |-> "absent", data |-> <<>>]
Garbage == [kind |-> "garbage", data |-> <<>>]
JsonArray(dicts) == [kind |-> "json", data |-> dicts]
\* a file holding the text of a CSV table, which json.load rejects as well
CsvText(rows) == [kind |-> "csv", data |-> rows]

\* json.dump([s.to_dict() for s in students_list], tf)
dump(students_list) ==
    JsonArray([i \in 1..Len(students_list) |-> to_dict(students_list[i])])

\* load_students_from_file: no file gives []; an exception (unreadable JSON,
\* a dict without one of the keys) shows "Load Error" and gives [].
load_students_from_file(f) ==
    IF f.kind = "absent" THEN [students |-> <<>>, error |-> FALSE]
    ELSE IF f.kind # "json" THEN [students |-> <<>>, error |-> TRUE]
    ELSE IF \E i \in 1..Len(f.data) : from_dict_raises(f.data[i])
        THEN [students |-> <<>>, error |-> TRUE]
    ELSE [students |-> [i \in 1..Len(f.data) |-> from_dict(f.data[i])],
          error |-> FALSE]

\* What happens to one call of save_students_to_file: it runs through, the
\* write of the temporary file raises, os.replace raises, or the process is
\* killed while writing or between the write and os.replace.
SaveErrors == {"write_error", "replace_error"}
SaveCrashes == {"crash_in_write", "crash_before_replace"}
SaveOutcomes == {"ok"} \cup SaveErrors \cup SaveCrashes

\* save_students_to_file writing the file itself instead of a temporary file
save_in_place(f, students_list, outcome) ==
    LET tf == IF outcome \in {"write_error", "crash_in_write"}
                  THEN Garbage
                  ELSE dump(students_list)
    IN [file |-> tf, error |-> outcome \in SaveErrors]

\* save_students_to_file: the array goes to a temporary file, which then
\* replaces the file; an exception is caught and shown as "Save Error".
save_students_to_file(f, students_list, outcome) ==
    LET tf == IF outcome \in {"write_error", "crash_in_write"}
                  THEN Garbage
                  ELSE dump(students_list)
    IN [file |-> IF outcome = "ok" THEN tf ELSE f,
        error |-> outcome \in SaveErrors]

----------------------------------------------------------------------------
(* StudentApp: the state and the helpers of the handlers *)

NoStudents == <<>>
EmptyMap == [k \in {} |-> 0]

\* rebuild_hash_map: walk the list from the head; a later node with the same
\* normalized roll takes the key over from an earlier one.
rebuild_hash_map(list) ==
    LET keys == {normalize_roll(list[i].roll) : i \in 1..Len(list)}
    IN [k \in keys |->
           CHOOSE i \in 1..Len(list) :
               /\ normalize_roll(list[i].roll) = k
               /\ \A j \in (i + 1)..Len(list) : normalize_roll(list[j].roll) # k]

\* the rows refresh_table leaves in the table
table_rows(list) ==
    [i \in 1..Len(list) |-> <<list[i].roll, list[i].name, Format2f(list[i].gpa)>>]

\* the rows export_csv writes under the header
csv_rows(list) ==
    <<<<"Roll", "Name", "GPA">>>> \o table_rows(list)

\* What a handler reports when it returns: the handler, the title of the
\* dialog it ends with, and what became of its save ("none": it did not save).
Last(op, msg, save) == [op |-> op, msg |-> msg, save |-> save]

\* load_data in StudentApp.__init__, then refresh_table
StudentApp_init(f) ==
    LET loaded == load_students_from_file(f)
        list == rebuild_from_list(loaded.students)
    IN [linked_list |-> list,
        hash_map |-> rebuild_hash_map(list),
        file |-> f,
        tree |-> table_rows(list),
        running |-> TRUE,
        fails |-> 0,
        last |-> Last("init", IF loaded.error THEN "Load Error" ELSE "none", "none")]

\* a handler that returns before it changes anything, after showing msg
Returned(app, op, msg) == [app EXCEPT !.last = Last(op, msg, "none")]

\* the process killed inside a save: nothing of its memory is left
Killed(app, op, f) ==
    [linked_list |-> NoStudents, hash_map |-> EmptyMap, file |-> f,
     tree |-> <<>>, running |-> FALSE, fails |-> 0,
     last |-> Last(op, "none", "crash")]

\* persist_and_refresh saving the list as it was before the handler
persist_stale_and_refresh(app, op, msg, list, outcome) ==
    LET saved == save_students_to_file(app.file, to_list(app.linked_list), outcome)
    IN IF outcome \in SaveCrashes THEN Killed(app, op, saved.file)
       ELSE [linked_list |-> list,
             hash_map |-> rebuild_hash_map(list),
             file |-> saved.file,
             tree |-> table_rows(list),
             running |-> TRUE,
             fails |-> IF saved.error THEN app.fails + 1 ELSE 0,
             last |-> Last(op, msg, IF saved.error THEN "error" ELSE "ok")]

\* persist_and_refresh on the list as the handler left it: save, rebuild the
\* hash map, refresh the table.
persist_and_refresh(app, op, msg, list, outcome) ==
    LET saved == save_students_to_file(app.file, to_list(list), outcome)
    IN IF outcome \in SaveCrashes THEN Killed(app, op, saved.file)
       ELSE [linked_list |-> list,
             hash_map |-> rebuild_hash_map(list),
             file |-> saved.file,
             tree |-> table_rows(list),
             running |-> TRUE,
             fails |-> IF saved.error THEN app.fails + 1 ELSE 0,
             last |-> Last(op, msg, IF saved.error THEN "error" ELSE "ok")]

\* the GPA range validate_inputs accepts, in tenths
GpaMin == 0
GpaMax == 40

\* validate_inputs(require_roll=True) on the texts of the three entries
validate_inputs(roll_raw, name_raw, gpa_raw) ==
    LET roll == normalize_roll(roll_raw)
        name == strip(name_raw)
        gpa_str == strip(gpa_raw)
        parsed == float(gpa_str)
        no == [ok |-> FALSE, roll |-> roll, name |-> name, gpa |-> 0]
    IN IF roll = <<>> THEN no
       ELSE IF name = <<>> THEN no
       ELSE IF gpa_str = <<>> THEN no
       ELSE IF ~parsed.ok THEN no
       ELSE IF FloatLt(parsed.val, GpaMin) \/ FloatLt(GpaMax, parsed.val) THEN no
       ELSE [ok |-> TRUE, roll |-> roll, name |-> name, gpa |-> parsed.val]

----------------------------------------------------------------------------
(* StudentApp: the handlers, each from the state app to the state it leaves *)

\* add_student without the check for a duplicate
add_student_unchecked(app, roll_entry, name_entry, gpa_entry, outcome) ==
    LET validated == validate_inputs(roll_entry, name_entry, gpa_entry)
    IN IF ~validated.ok THEN Returned(app, "add_student", "Validation")
       ELSE LET student == Student(validated.roll, validated.name, validated.gpa)
                list == append(app.linked_list, student)
            IN persist_and_refresh(app, "add_student", "Success", list, outcome)

\* add_student
add_student(app, roll_entry, name_entry, gpa_entry, outcome) ==
    LET validated == validate_inputs(roll_entry, name_entry, gpa_entry)
    IN IF ~validated.ok THEN Returned(app, "add_student", "Validation")
       ELSE IF validated.roll \in DOMAIN app.hash_map
           THEN Returned(app, "add_student", "Duplicate")
       ELSE LET student == Student(validated.roll, validated.name, validated.gpa)
                list == append(app.linked_list, student)
            IN persist_and_refresh(app, "add_student", "Success", list, outcome)

\* update_student writing name and GPA to the node before the duplicate check
update_student_writes_first(app, sel, roll_entry, name_entry, gpa_entry, outcome) ==
    IF sel = 0 THEN Returned(app, "update_student", "Selection")
    ELSE
    LET original_vals == app.tree[sel]
        original_roll == normalize_roll(original_vals[1])
        validated == validate_inputs(roll_entry, name_entry, gpa_entry)
        new_roll == validated.roll
    IN IF ~validated.ok THEN Returned(app, "update_student", "Validation")
       ELSE IF original_roll \notin DOMAIN app.hash_map
           THEN Returned(app, "update_student", "Not Found")
       ELSE LET node == app.hash_map[original_roll]
                written == [app.linked_list EXCEPT
                               ![node].name = validated.name,
                               ![node].gpa = validated.gpa]
                list == [written EXCEPT ![node].roll = new_roll]
            IN IF new_roll # original_roll /\ new_roll \in DOMAIN app.hash_map
                   THEN Returned([app EXCEPT !.linked_list = written],
                                 "update_student", "Duplicate")
                   ELSE persist_and_refresh(app, "update_student", "Updated", list,
                                            outcome)

\* update_student; sel is the selected row of the table, 0 for none
update_student(app, sel, roll_entry, name_entry, gpa_entry, outcome) ==
    IF sel = 0 THEN Returned(app, "update_student", "Selection")
    ELSE
    LET original_vals == app.tree[sel]
        original_roll == normalize_roll(original_vals[1])
        validated == validate_inputs(roll_entry, name_entry, gpa_entry)
        new_roll == validated.roll
    IN IF ~validated.ok THEN Returned(app, "update_student", "Validation")
       ELSE IF new_roll # original_roll /\ new_roll \in DOMAIN app.hash_map
           THEN Returned(app, "update_student", "Duplicate")
       ELSE IF original_roll \notin DOMAIN app.hash_map
           THEN Returned(app, "update_student", "Not Found")
       ELSE LET node == app.hash_map[original_roll]
                list == [app.linked_list EXCEPT
                            ![node] = Student(new_roll, validated.name, validated.gpa)]
            IN persist_and_refresh(app, "update_student", "Updated", list, outcome)

\* delete_student; result is the answer to the "Confirm Delete" question
delete_student(app, roll_entry, result, outcome) ==
    LET roll_raw == strip(roll_entry)
        roll == normalize_roll(roll_raw)
    IN IF roll_raw = <<>> THEN Returned(app, "delete_student", "Validation")
       ELSE IF roll \notin DOMAIN app.hash_map
           THEN Returned(app, "delete_student", "Not Found")
       ELSE IF ~result THEN Returned(app, "delete_student", "Confirm Delete")
       ELSE LET node == app.hash_map[roll]
                rm == remove_by_roll(app.linked_list, app.linked_list[node].roll)
                popped == [k \in DOMAIN app.hash_map \ {roll} |-> app.hash_map[k]]
            IN IF rm.removed
                   THEN persist_and_refresh(app, "delete_student", "Deleted",
                                            rm.list, outcome)
                   ELSE [app EXCEPT !.hash_map = popped,
                                    !.last = Last("delete_student", "Error", "none")]

\* what search_student finds: hash_map.get(roll) and the node's student
search(app, roll_entry) ==
    LET roll == normalize_roll(strip(roll_entry))
    IN IF roll \in DOMAIN app.hash_map
           THEN [found |-> TRUE, student |-> app.linked_list[app.hash_map[roll]]]
           ELSE [found |-> FALSE, student |-> Student(<<>>, <<>>, 0)]

\* search_student: fills the entries and selects the row, or reports
search_student(app, roll_entry) ==
    IF strip(roll_entry) = <<>> THEN Returned(app, "search_student", "Validation")
    ELSE IF ~search(app, roll_entry).found
        THEN Returned(app, "search_student", "Search Result")
    ELSE Returned(app, "search_student", "none")

\* refresh_table, the "View All" button: the table shows the list
refresh_table(app) ==
    [app EXCEPT !.tree = table_rows(to_list(app.linked_list)),
                !.last = Last("refresh_table", "none", "none")]

\* sort_and_refresh
sort_and_refresh(app, key_name, outcome) ==
    LET students == sorted_students(to_list(app.linked_list), key_name)
        list == rebuild_from_list(students)
        saved == save_students_to_file(app.file, to_list(list), outcome)
    IN IF outcome \in SaveCrashes THEN Killed(app, "sort_and_refresh", saved.file)
       ELSE [linked_list |-> list,
             hash_map |-> rebuild_hash_map(list),
             file |-> saved.file,
             tree |-> table_rows(list),
             running |-> TRUE,
             fails |-> IF saved.error THEN app.fails + 1 ELSE 0,
             last |-> Last("sort_and_refresh", "none",
                           IF saved.error THEN "error" ELSE "ok")]

\* The path the save dialog of export_csv returns: none (cancelled), the
\* file at JSON_FILE, or any other file.
ExportPaths == {"", "JSON_FILE", "other"}
ExportOutcomes == {"ok", "open_error", "write_error"}

\* export_csv: open(path, "w") empties the file, the rows are written to it
export_csv(app, path, outcome) ==
    IF path = "" THEN Returned(app, "export_csv", "none")
    ELSE LET text == IF outcome = "ok"
                         THEN CsvText(csv_rows(to_list(app.linked_list)))
                         ELSE Garbage
             msg == IF outcome = "ok" THEN "Exported" ELSE "Export Error"
         IN [app EXCEPT !.file = IF path = "JSON_FILE" /\ outcome # "open_error"
                                     THEN text ELSE app.file,
                        !.last = Last("export_csv", msg, "none")]

----------------------------------------------------------------------------
(* What the user types and what the backing file holds at the start *)

\* texts of the roll entry: blank, one that normalizes to "A", one that
\* is normalized already
RollInputs == {<<" ">>, <<" ", "a">>, <<"B">>}
\* texts of the name entry
NameInputs == {<<" ">>, <<"n", " ">>}
\* texts of the GPA entry
GpaInputs == {<<>>, <<"x">>, <<"3">>, <<"4", ".", "5">>, <<"n", "a", "n">>}

\* The three entries as a handler reads them.  validate_inputs returns at
\* a blank name before it looks at the GPA, so the blank name is entered
\* with one GPA text.
Entries ==
    {e \in RollInputs \X NameInputs \X GpaInputs : e[2] # <<" ">> \/ e[3] = <<"3">>}

\* the objects of the JSON array the file starts with: rolls that differ only
\* in case, a GPA above 4.0, an object without "gpa"
FileDicts ==
    {[roll |-> <<"a">>, name |-> <<"n">>, gpa |-> 30],
     [roll |-> <<"A">>, name |-> <<"N">>, gpa |-> 45],
     [roll |-> <<"B">>, name |-> <<"n">>]}

SeqsUpTo(S, n) == UNION {[1..k -> S] : k \in 0..n}

InitFiles ==
    {NoFile, Garbage} \cup {JsonArray(d) : d \in SeqsUpTo(FileDicts, MaxFile)}

\* the students of the lists the sort specification starts with: equal names
\* up to case, equal GPAs, rolls equal up to case, a NaN GPA
SortStudents ==
    {Student(<<"A">>, <<"n">>, 30),
     Student(<<"a">>, <<"N">>, 40),
     Student(<<"B">>, <<"N">>, 30),
     Student(<<"b", "a">>, <<"a">>, 20),
     Student(<<"A", "B">>, <<"b">>, 10),
     Student(<<"B", "a">>, <<"a", "n">>, NaN)}

SortFiles == {dump(s) : s \in SeqsUpTo(SortStudents, MaxSortLen)}

----------------------------------------------------------------------------
(* The state machine *)

\* the state, as the handlers take it; they return it with `last` set
self ==
    [linked_list |-> linked_list, hash_map |-> hash_map, file |-> file,
     tree |-> tree, running |-> running, fails |-> fails,
     last |-> Last("none", "none", "none")]

\* `post` is the state the step leaves
Becomes(post) ==
    LET p == post
    IN /\ linked_list' = p.linked_list
       /\ hash_map' = p.hash_map
       /\ file' = p.file
       /\ tree' = p.tree
       /\ running' = p.running
       /\ fails' = p.fails

Starts(f) ==
    LET app == StudentApp_init(f)
    IN /\ linked_list = app.linked_list
       /\ hash_map = app.hash_map
       /\ file = app.file
       /\ tree = app.tree
       /\ running = app.running
       /\ fails = app.fails

\* a save may fail only MaxFails times in a row
Allowed(outcome) == outcome \in SaveErrors => fails < MaxFails

\* A handler that returns before it saves does so whatever the save would
\* have done: the outcome of the save is drawn only when the save is reached.
Saves(post) == post.last.save # "none"

AddStudent ==
    \E <<roll_entry, name_entry, gpa_entry>> \in Entries :
        LET done == add_student(self, roll_entry, name_entry, gpa_entry, "ok")
        IN /\ running
           /\ IF Saves(done)
                  THEN \E outcome \in SaveOutcomes :
                           /\ Allowed(outcome)
                           /\ Len(linked_list) < MaxStudents
                           /\ Becomes(add_student(self, roll_entry, name_entry,
                                                  gpa_entry, outcome))
                  ELSE Becomes(done)

UpdateStudent ==
    \E sel \in 0..Len(tree), <<roll_entry, name_entry, gpa_entry>> \in Entries :
        LET done == update_student(self, sel, roll_entry, name_entry, gpa_entry, "ok")
        IN /\ running
           /\ IF Saves(done)
                  THEN \E outcome \in SaveOutcomes :
                           /\ Allowed(outcome)
                           /\ Becomes(update_student(self, sel, roll_entry, name_entry,
                                                     gpa_entry, outcome))
                  ELSE Becomes(done)

DeleteStudent ==
    \E roll_entry \in RollInputs, result \in BOOLEAN :
        LET done == delete_student(self, roll_entry, result, "ok")
        IN /\ running
           /\ IF Saves(done)
                  THEN \E outcome \in SaveOutcomes :
                           /\ Allowed(outcome)
                           /\ Becomes(delete_student(self, roll_entry, result, outcome))
                  ELSE Becomes(done)

SearchStudent ==
    \E roll_entry \in RollInputs :
        /\ running
        /\ Becomes(search_student(self, roll_entry))

ViewAll ==
    /\ running
    /\ Becomes(refresh_table(self))

SortAndRefresh ==
    \E key_name \in SortFields, outcome \in SaveOutcomes :
        /\ running
        /\ Allowed(outcome)
        /\ Becomes(sort_and_refresh(self, key_name, outcome))

ExportCsv ==
    \E path \in ExportPaths, outcome \in ExportOutcomes :
        /\ running
        /\ Becomes(export_csv(self, path, outcome))

\* main: the program is started again after it was killed
Main ==
    /\ ~running
    /\ Becomes(StudentApp_init(file))

Init == \E f \in InitFiles : Starts(f)

Next ==
    \/ AddStudent
    \/ UpdateStudent
    \/ DeleteStudent
    \/ SearchStudent
    \/ ViewAll
    \/ SortAndRefresh
    \/ ExportCsv
    \/ Main

Spec == Init /\ [][Next]_vars

\* the store started with no backing file
InitEmpty == Starts(NoFile)

SpecEmpty == InitEmpty /\ [][Next]_vars

\* the store started on any list of students, then sorted
InitSort == \E f \in SortFiles : Starts(f)

NextSort == SortAndRefresh

SpecSort == InitSort /\ [][NextSort]_vars

----------------------------------------------------------------------------
(* Properties *)

\* the normalized rolls of the records of a list
NormalizedRolls(list) == {normalize_roll(list[i].roll) : i \in 1..Len(list)}

\* no two records of the list share a normalized roll
UniqueRolls(list) ==
    \A i, j \in 1..Len(list) :
        i # j => normalize_roll(list[i].roll) # normalize_roll(list[j].roll)

\* the save outcomes after which the process is still there
Survived == {"ok"} \cup SaveErrors

\* C1: at the end of every operation, from the load on, the keys of the hash
\* map are exactly the normalized rolls of the records of the list, every
\* record is the one its own normalized roll leads to, and no normalized roll
\* is on two records.
C1_IndexMatchesContainer ==
    running =>
        /\ DOMAIN hash_map = NormalizedRolls(linked_list)
        /\ \A i \in 1..Len(linked_list) :
               /\ normalize_roll(linked_list[i].roll) \in DOMAIN hash_map
               /\ hash_map[normalize_roll(linked_list[i].roll)] = i
        /\ UniqueRolls(linked_list)

\* C2: from the empty store on, no two records share a normalized roll, and
\* an add whose normalized roll is on a record of the list is refused as a
\* duplicate and leaves the list, the hash map and the file as they were.
C2_UniqueRollsAndDuplicateRefused ==
    /\ UniqueRolls(linked_list)
    /\ running =>
         \A <<roll_entry, name_entry, gpa_entry>> \in Entries, outcome \in SaveOutcomes :
             LET post == add_student(self, roll_entry, name_entry, gpa_entry, outcome)
             IN (/\ validate_inputs(roll_entry, name_entry, gpa_entry).ok
                 /\ normalize_roll(roll_entry) \in NormalizedRolls(linked_list))
                => /\ post.last.msg = "Duplicate"
                   /\ post.linked_list = linked_list
                   /\ post.hash_map = hash_map
                   /\ post.file = file

\* a store of two records, built by adds, in which an add that repeats the
\* roll of the first record in another spelling is refused
C2_Witness ==
    /\ running
    /\ Len(linked_list) = 2
    /\ linked_list[1].roll = <<"A">>
    /\ add_student(self, <<" ", "a">>, <<"n", " ">>, <<"3">>, "ok").last.msg = "Duplicate"

\* C3: after a delete of r that went through, a search of r finds nothing, no
\* record of the list has the normalized roll r, and an add of r with a valid
\* name and GPA goes through.
C3_DeleteThenSearchAbsent ==
    running =>
        \A roll_entry \in RollInputs, outcome \in Survived :
            LET post == delete_student(self, roll_entry, TRUE, outcome)
            IN post.last.msg = "Deleted"
               => /\ ~search(post, roll_entry).found
                  /\ normalize_roll(roll_entry) \notin NormalizedRolls(post.linked_list)
                  /\ add_student(post, roll_entry, <<"n", " ">>, <<"3">>, "ok").last.msg
                         = "Success"

\* how often x occurs in the sequence a
Count(a, x) == Cardinality({i \in 1..Len(a) : a[i] = x})

\* b holds exactly the records of a, none lost and none twice
IsPermutation(a, b) ==
    /\ Len(a) = Len(b)
    /\ \A i \in 1..Len(a) : Count(a, a[i]) = Count(b, a[i])

\* no record of the list has a key strictly below the key of a record before
\* it (for "gpa": strictly above, the highest GPA comes first)
InOrder(key_name, list) ==
    \A i, j \in 1..Len(list) :
        i < j =>
            IF key_name = "gpa"
                THEN ~FloatLt(list[i].gpa, list[j].gpa)
                ELSE ~KeyLt(key_name, key_fn(key_name, list[j]), key_fn(key_name, list[i]))

\* C4: a sort leaves the list a permutation of what it was, in the order of
\* the field: normalized rolls and lower-cased names never decrease, GPAs
\* never increase.
C4_SortOrdersAPermutation ==
    running =>
        \A key_name \in SortFields :
            LET post == sort_and_refresh(self, key_name, "ok")
            IN /\ IsPermutation(linked_list, post.linked_list)
               /\ InOrder(key_name, post.linked_list)

\* the same, for the lists none of whose GPAs is NaN
C4_SortOrdersWithoutNaN ==
    (running /\ \A i \in 1..Len(linked_list) : linked_list[i].gpa # NaN) =>
        \A key_name \in SortFields :
            LET post == sort_and_refresh(self, key_name, "ok")
            IN /\ IsPermutation(linked_list, post.linked_list)
               /\ InOrder(key_name, post.linked_list)

\* the keys of the records of the list, in list order
Keys(key_name, list) == [i \in 1..Len(list) |-> key_fn(key_name, list[i])]

\* of any two records of the list one has the strictly smaller key
StrictlyOrderedKeys(key_name, list) ==
    \A i, j \in 1..Len(list) :
        i # j => \/ KeyLt(key_name, key_fn(key_name, list[i]), key_fn(key_name, list[j]))
                 \/ KeyLt(key_name, key_fn(key_name, list[j]), key_fn(key_name, list[i]))

\* C5, as claimed: the sort done twice with one field leaves the records in
\* the order the sort done once leaves them, equal keys included.
C5_SortTwiceSameOrder ==
    running =>
        \A key_name \in SortFields :
            LET once == sort_and_refresh(self, key_name, "ok")
                twice == sort_and_refresh(once, key_name, "ok")
            IN twice.linked_list = once.linked_list

\* C5, amended: the sort done twice leaves the order of the sort done once
\* when the keys of the records are strictly ordered, and the same sequence
\* of keys when no GPA is NaN.
C5_SortTwiceSameOrderOnDistinctKeys ==
    running =>
        \A key_name \in SortFields :
            LET once == sort_and_refresh(self, key_name, "ok")
                twice == sort_and_refresh(once, key_name, "ok")
            IN /\ StrictlyOrderedKeys(key_name, linked_list)
                  => twice.linked_list = once.linked_list
               /\ (\A i \in 1..Len(linked_list) : linked_list[i].gpa # NaN)
                  => Keys(key_name, twice.linked_list) = Keys(key_name, once.linked_list)

\* a list of three records with three different names that a sort by name
\* has put in order while its save failed: the file still has the old order
C5_Witness ==
    /\ running
    /\ fails = 1
    /\ Len(linked_list) = 3
    /\ StrictlyOrderedKeys("name", linked_list)
    /\ file.kind = "json"
    /\ file # dump(linked_list)
    /\ file = dump(reverse(linked_list))

\* the file is a JSON array of exactly the records of the list, in its order
FileHolds(f, list) ==
    LET held == f
        records == list
    IN /\ held.kind = "json"
       /\ Len(held.data) = Len(records)
       /\ \A i \in 1..Len(records) :
              held.data[i] = [roll |-> records[i].roll, name |-> records[i].name,
                              gpa |-> records[i].gpa]

\* every add, update, delete and sort whose save goes through leaves the file
\* holding the list it leaves
SavedFileHoldsList ==
    /\ \A <<roll_entry, name_entry, gpa_entry>> \in Entries :
           LET post == add_student(self, roll_entry, name_entry, gpa_entry, "ok")
           IN post.last.save = "ok" => FileHolds(post.file, post.linked_list)
    /\ \A sel \in 0..Len(tree), <<roll_entry, name_entry, gpa_entry>> \in Entries :
           LET post == update_student(self, sel, roll_entry, name_entry,
                                      gpa_entry, "ok")
           IN post.last.save = "ok" => FileHolds(post.file, post.linked_list)
    /\ \A roll_entry \in RollInputs, result \in BOOLEAN :
           LET post == delete_student(self, roll_entry, result, "ok")
           IN post.last.save = "ok" => FileHolds(post.file, post.linked_list)
    /\ \A key_name \in SortFields :
           LET post == sort_and_refresh(self, key_name, "ok")
           IN post.last.save = "ok" /\ FileHolds(post.file, post.linked_list)

SaveIsAtomic(post, done, outcome) ==
    LET p == post
        d == done
    IN Saves(d) =>
        /\ p.file = file \/ FileHolds(p.file, d.linked_list)
        /\ outcome \in SaveErrors =>
               /\ p.file = file
               /\ p.running
               /\ p.linked_list = d.linked_list
               /\ p.hash_map = d.hash_map
        /\ outcome \in SaveCrashes => p.file = file /\ ~p.running
        /\ outcome = "ok" => FileHolds(p.file, p.linked_list)

\* C7: whatever becomes of a save, the file is afterwards what it was or the
\* whole list of that save, never part of it; a save that fails or a process
\* killed in it leaves the file as it was, a failed save leaves the list and
\* the hash map as the handler changed them, and the save that next goes
\* through makes the file hold the list.
C7_SaveIsAtomicAndKeepsMutation ==
    running =>
        /\ \A <<roll_entry, name_entry, gpa_entry>> \in Entries :
               LET done == add_student(self, roll_entry, name_entry, gpa_entry, "ok")
               IN Saves(done) =>
                      \A outcome \in SaveOutcomes :
                          LET post == add_student(self, roll_entry, name_entry,
                                                  gpa_entry, outcome)
                          IN /\ SaveIsAtomic(post, done, outcome)
                             /\ outcome \in SaveErrors
                                => /\ Len(post.linked_list) = Len(linked_list) + 1
                                   /\ search(post, roll_entry).found
        /\ \A sel \in 0..Len(tree), <<roll_entry, name_entry, gpa_entry>> \in Entries :
               LET done == update_student(self, sel, roll_entry, name_entry,
                                          gpa_entry, "ok")
               IN Saves(done) =>
                      \A outcome \in SaveOutcomes :
                          SaveIsAtomic(update_student(self, sel, roll_entry, name_entry,
                                                      gpa_entry, outcome),
                                       done, outcome)
        /\ \A roll_entry \in RollInputs :
               LET done == delete_student(self, roll_entry, TRUE, "ok")
               IN Saves(done) =>
                      \A outcome \in SaveOutcomes :
                          LET post == delete_student(self, roll_entry, TRUE, outcome)
                          IN /\ SaveIsAtomic(post, done, outcome)
                             /\ outcome \in SaveErrors
                                => Len(post.linked_list) = Len(linked_list) - 1
        /\ \A key_name \in SortFields, outcome \in SaveOutcomes :
               SaveIsAtomic(sort_and_refresh(self, key_name, outcome),
                            sort_and_refresh(self, key_name, "ok"),
                            outcome)

\* after a failed save of an add the file still holds the list without the
\* student the add appended
C7_Witness ==
    /\ running
    /\ fails = 1
    /\ Len(linked_list) = 2
    /\ FileHolds(file, SubSeq(linked_list, 1, 1))
    /\ search(self, linked_list[2].roll).found

\* C8: an update that goes through and changes the normalized roll re-keys
\* one record: a search of the original roll finds nothing, a search of the
\* new roll finds the record that was under the original roll, with the new
\* roll, name and GPA, in its old place; the list is as long as before and
\* all other records and all other keys of the hash map are as before.
C8_UpdateRekeysOneRecord ==
    running =>
        \A sel \in 1..Len(tree), <<roll_entry, name_entry, gpa_entry>> \in Entries,
           outcome \in Survived :
            LET post == update_student(self, sel, roll_entry, name_entry, gpa_entry,
                                       outcome)
                original == normalize_roll(tree[sel][1])
                new_roll == normalize_roll(roll_entry)
                node == hash_map[original]
            IN (post.last.msg = "Updated" /\ new_roll # original)
               => /\ ~search(post, tree[sel][1]).found
                  /\ search(post, roll_entry).found
                  /\ search(post, roll_entry).student
                         = Student(new_roll, strip(name_entry), float(gpa_entry).val)
                  /\ post.hash_map[new_roll] = node
                  /\ Len(post.linked_list) = Len(linked_list)
                  /\ \A i \in 1..Len(linked_list) :
                         i # node => post.linked_list[i] = linked_list[i]
                  /\ \A k \in DOMAIN hash_map \ {original} :
                         k \in DOMAIN post.hash_map /\ post.hash_map[k] = hash_map[k]
                  /\ DOMAIN post.hash_map \subseteq (DOMAIN hash_map \ {original}) \cup {new_roll}

\* a GPA of the range [0.0, 4.0]
GpaInRange(g) == g # NaN /\ g >= GpaMin /\ g <= GpaMax

\* C9: a record of the file whose GPA is outside [0.0, 4.0] is kept out of
\* the list or the load is reported as failed, so that every record of the
\* list has a GPA within [0.0, 4.0].
C9_LoadedGpaInRange ==
    /\ \A i \in 1..Len(linked_list) : GpaInRange(linked_list[i].gpa)
    /\ LET loaded == load_students_from_file(file)
       IN ~loaded.error
          => \A j \in 1..Len(loaded.students) : GpaInRange(loaded.students[j].gpa)

\* the texts of the entries are not a valid input: the normalized roll or
\* the name is empty, the GPA is missing, no number, or outside [0, 4]
InvalidInput(roll_entry, name_entry, gpa_entry) ==
    \/ normalize_roll(roll_entry) = <<>>
    \/ strip(name_entry) = <<>>
    \/ strip(gpa_entry) = <<>>
    \/ ~float(gpa_entry).ok
    \/ (float(gpa_entry).val # NaN
        /\ (float(gpa_entry).val < GpaMin \/ float(gpa_entry).val > GpaMax))

\* the handler returned without a save and left list, hash map and file alone
NoOp(post) ==
    LET p == post
    IN /\ p.last.save = "none"
       /\ p.linked_list = linked_list
       /\ p.hash_map = hash_map
       /\ p.file = file

============================================================================
